---- MODULE Spec2Model ----
(***************************************************************************)
(* A model of the watermark tool: the compositor addWatermark of           *)
(* src/src/components/ImageViewer.tsx (lines 431-582) and the application  *)
(* state machine of src/src/App.tsx that calls it.                         *)
(*                                                                         *)
(* Numbers.  The compositor computes with IEEE doubles.  The model         *)
(* computes with exact fixed-point integers: every length is an integer    *)
(* number of units, PX units to the pixel.  |cos| and |sin| come from a    *)
(* table in thousandths, percentages divide by 100 and the code halves and *)
(* quarters lengths, so with PX = 400000 every division below is exact.    *)
(* A division by a zero cell size gives JavaScript's Infinity, which the   *)
(* model keeps as a flag (colsInfinite, rowsInfinite).  Math.cos(PI/2) is  *)
(* 6.1e-17 in IEEE arithmetic and 0 in the table: where the table gives a  *)
(* cell of size 0 at +-90 and 180 degrees the code gives one of about      *)
(* 1e-15 px, that is about 1e17 rows or columns instead of Infinity.  At   *)
(* rotation 0 the code's values are exactly those of the table.            *)
(***************************************************************************)
EXTENDS Integers, Sequences, FiniteSets, TLC

VARIABLES
    \* ---- one call of addWatermark(image, options, exportOptions) ----
    image,          \* the id of the decoded image's surface (argument)
    options,        \* WatermarkOptions (argument)
    exportOptions,  \* ExportOptions, or Undefined (optional argument)
    surfaces,       \* the pixel surfaces alive: id -> surface
    canvas,         \* the id of the call's canvas, NoCanvas before it exists
    metrics,        \* the call's locals textWidth, textHeight
    pc,             \* where the call is
    dataUrl,        \* what the promise resolved with, NoUrl before
    running,        \* the callers whose call of addWatermark has not settled
    \* ---- the state of App (useState) ----
    selectedFile, originalImage, previewUrl, watermarkedUrl, isProcessing,
    exportFormat, exportQuality, showWatermark, watermarkOptions,
    \* ---- the browser around App ----
    timers,         \* the pending setTimeout timers
    effectTimer,    \* the timer id the effect's cleanup closure holds
    loads,          \* the files whose loadImage promise is pending
    elapsed,        \* ms since watermarkOptions or originalImage last changed
    hung,           \* the page is stuck in a loop that does not end
    lastAlert,      \* the message of the last alert()
    folder,         \* the files the user picks from
    encoders,       \* the MIME types the browser's canvas encodes
    \* ---- what the outside saw of the calls (observers) ----
    observe,        \* which of the observers below are kept
    lastRequest,    \* the encoding the last addWatermark call was asked for
    lastDownload,   \* the last downloadImage(dataUrl, filename)
    lastLoad,       \* what the last loadImage call that settled did
    ref,            \* one earlier call: its arguments and its result
    again,          \* the result of the last call with ref's arguments
    afterReset,     \* handleReset ran and no picture was selected since
    \* ---- the ImageViewer component ----
    viewer          \* its useState values, its wheel timer and its frames

callVars == <<image, options, exportOptions, canvas, metrics, pc, dataUrl, running>>

stateVars == <<selectedFile, originalImage, previewUrl, watermarkedUrl, isProcessing,
               exportFormat, exportQuality, showWatermark, watermarkOptions>>

browserVars == <<timers, effectTimer, loads, elapsed, hung, lastAlert, folder,
                 encoders>>

observerVars == <<observe, lastRequest, lastDownload, lastLoad, ref, again,
                  afterReset>>

appVars == <<stateVars, browserVars, observerVars, viewer>>

vars == <<callVars, surfaces, appVars>>

----------------------------------------------------------------------------
(* Units and bounds *)

\* Units per pixel (see the header): 400 * 1000 makes every division exact.
PX == 400 * 1000

\* The longest text of the model, in characters.
MaxTextLen == 2

\* exportOptions left out: its fields read as undefined, which is falsy like
\* the empty string and 0.
Undefined == [format |-> "", quality |-> 0]
NoCanvas == -1
\* The empty string of useState(''), and the promise not yet resolved.
NoUrl == [ mimeType |-> "", hasQuality |-> FALSE, quality |-> 0, type |-> "",
           width |-> 0, height |-> 0, base |-> << >>, marks |-> << >> ]
NoMetrics == [textWidth |-> 0, textHeight |-> 0]

Sample == <<"S", "A", "M", "P", "L", "E">>

Texts == {SubSeq(Sample, 1, n) : n \in 0..MaxTextLen}

Positions == {"center", "top-left", "top-right", "bottom-left", "bottom-right"}

Modes == {"single", "tile"}

Formats == {"png", "jpeg", "webp"}

\* Decoded images of the model: width and height in pixels.
ImageSizes == {<<800, 600>>, <<2000, 2000>>}

FontSizes == {8, 40}

Rotations == {-45, 0, 90, 180}

Spacings == {0, 50, 300}

Offsets == {-50, 0, 50}

\* quality is a number in (0,1]; the model keeps it in hundredths.
ExportOptionsSet ==
    { [format |-> "png", quality |-> 100],
      [format |-> "jpeg", quality |-> 92],
      [format |-> "webp", quality |-> 50] }

\* opacity is kept in tenths (the slider's step is 0.1).
OptionsSet ==
    [ text : Texts, fontSize : FontSizes, color : {"#FF0000"}, opacity : {5},
      position : Positions, rotation : Rotations, mode : Modes,
      spacing : Spacings, offsetX : Offsets, offsetY : Offsets ]

----------------------------------------------------------------------------
(* Surfaces: the decoded image and the canvases *)

\* A decoded image (new Image(), src set, loaded): w x h pixels decoded from
\* the bytes named by pixels.  (A surface's font, fillStyle and globalAlpha
\* are those of a 2d context; an image has none and keeps the defaults.)
ImageSurface(w, h, pixels) ==
    [ width |-> w, height |-> h, decoded |-> TRUE, pixels |-> pixels,
      font |-> <<10, "sans-serif">>, fillStyle |-> "#000000", globalAlpha |-> 10,
      base |-> << >>, marks |-> << >> ]

\* A new canvas element of w x h pixels with its 2d context: transparent
\* black, the context in its default state.
BlankCanvas(w, h) ==
    [ width |-> w, height |-> h, decoded |-> FALSE, pixels |-> << >>,
      font |-> <<10, "sans-serif">>, fillStyle |-> "#000000", globalAlpha |-> 10,
      base |-> << >>, marks |-> << >> ]

\* An id no live surface has: what document.createElement returns is a new object.
FreshId(surfs) == CHOOSE i \in 0..Cardinality(DOMAIN surfs) : i \notin DOMAIN surfs

\* A mutant of CreateCanvas: the canvas keeps the size of a new canvas
\* element (300 x 150) instead of taking the image's.
CreateCanvas_DefaultSize(surfs, img) ==
    LET id == FreshId(surfs) IN
    [ i \in DOMAIN surfs \cup {id} |->
        IF i = id THEN BlankCanvas(300, 150) ELSE surfs[i] ]

\* A mutant of CreateCanvas: the call does not start from a blank canvas but
\* from the picture of the previous preview, whose marks stay under the new
\* ones.
CreateCanvas_OnPreview(surfs, img) ==
    LET id == FreshId(surfs) IN
    [ i \in DOMAIN surfs \cup {id} |->
        IF i = id
        THEN [ BlankCanvas(surfs[img].width, surfs[img].height)
                 EXCEPT !.marks = watermarkedUrl.marks ]
        ELSE surfs[i] ]

\* document.createElement('canvas'), getContext('2d'), canvas.width/height =
\* image.width/height: a new blank surface of the image's size with a context
\* in its default state.
CreateCanvas(surfs, img) ==
    LET id == FreshId(surfs) IN
    [ i \in DOMAIN surfs \cup {id} |->
        IF i = id
        THEN BlankCanvas(surfs[img].width, surfs[img].height)
        ELSE surfs[i] ]

\* The id CreateCanvas gave the new canvas.
NewCanvasId(before, after) == CHOOSE i \in DOMAIN after : i \notin DOMAIN before

\* What drawImage(image, 0, 0) puts on a surface: the image's pixels at
\* (0, 0), blended with the context's globalAlpha.
Blend(surfs, c, img) ==
    [ pixels |-> surfs[img].pixels, width |-> surfs[img].width,
      height |-> surfs[img].height, x |-> 0, y |-> 0,
      alpha |-> surfs[c].globalAlpha ]

\* A mutant of DrawImage: the blend also lands on the source image.
DrawImage_IntoSource(surfs, c, img) ==
    [ surfs EXCEPT ![c].base = Append(@, Blend(surfs, c, img)),
                   ![img].base = Append(@, Blend(surfs, c, img)) ]

\* ctx.drawImage(image, 0, 0) on surface c: the image is blended onto c with
\* the context's current globalAlpha; the image is only read.
DrawImage(surfs, c, img) ==
    [ surfs EXCEPT ![c].base = Append(@, Blend(surfs, c, img)) ]

\* ctx.font, ctx.fillStyle, ctx.globalAlpha = ...
SetStyle(surfs, c, opts) ==
    [ surfs EXCEPT ![c].font = <<opts.fontSize, "Arial">>,
                   ![c].fillStyle = opts.color,
                   ![c].globalAlpha = opts.opacity ]

\* ctx.measureText(text).width of the glyph-metrics backend, in units: the
\* model's font is half an em wide per character, so the width is 0 exactly
\* for the empty text and grows with the text and with the font size.
MeasureText(text, fontSize) == Len(text) * fontSize * (PX \div 2)

\* textWidth = measureText(text).width, textHeight = fontSize.
Metrics(opts) ==
    [ textWidth |-> MeasureText(opts.text, opts.fontSize),
      textHeight |-> opts.fontSize * PX ]

----------------------------------------------------------------------------
(* Tile mode geometry *)

\* The angle folded into 0..90 degrees: |cos| and |sin| have period 180 and
\* are even.
Fold(deg) ==
    LET a == (IF deg < 0 THEN -deg ELSE deg) % 180
    IN IF a > 90 THEN 180 - a ELSE a

\* 1000 * cos of 0, 15, ..., 90 degrees.
CosTable(a) ==
    CASE a = 0 -> 1000 [] a = 15 -> 966 [] a = 30 -> 866 [] a = 45 -> 707
      [] a = 60 -> 500 [] a = 75 -> 259 [] a = 90 -> 0

\* Math.abs(Math.cos(angle)) and Math.abs(Math.sin(angle)), in thousandths.
AbsCos(deg) == CosTable(Fold(deg))
AbsSin(deg) == CosTable(90 - Fold(deg))

\* A mutant of Ceil: Math.floor.
Ceil_Floor(a, b) == a \div b

\* Math.ceil(a / b) for a >= 0, b > 0.
Ceil(a, b) == (a + b - 1) \div b

\* A mutant of SpacingGap: the gap is taken relative to 100%, so that a
\* spacing below 100 pulls the tiles together.
SpacingGap_Relative(rotatedWidth, spacingPercent) ==
    (rotatedWidth \div 100) * (spacingPercent - 100)

\* spacingGap = rotatedWidth * (spacingPercent / 100)
SpacingGap(rotatedWidth, spacingPercent) ==
    (rotatedWidth \div 100) * spacingPercent

\* A mutant of OffsetPixels: the percentage is taken of 1000 pixels, not of
\* the canvas.
OffsetPixels_OfThousand(size, percent) == 1000 * percent * (PX \div 100)

\* offsetXPixels = canvas.width * (options.offsetX / 100), and likewise for
\* Y, in units.
OffsetPixels(size, percent) == size * percent * (PX \div 100)

\* Steps 1 to 6 of the tile branch for a canvas of W x H pixels.
TileGrid(W, H, opts, m) ==
    LET cos == AbsCos(opts.rotation)
        sin == AbsSin(opts.rotation)
        rotatedWidth == (m.textWidth \div 1000) * cos + (m.textHeight \div 1000) * sin
        rotatedHeight == (m.textWidth \div 1000) * sin + (m.textHeight \div 1000) * cos
        spacingGap == SpacingGap(rotatedWidth, opts.spacing)
        cellWidth == rotatedWidth + spacingGap
        cellHeight == rotatedHeight + spacingGap
        \* Math.ceil(W / 0) is Infinity for W > 0
        colsInfinite == cellWidth = 0
        rowsInfinite == cellHeight = 0
        cols == IF colsInfinite THEN 0 ELSE Ceil(W * PX, cellWidth) + 2
        rows == IF rowsInfinite THEN 0 ELSE Ceil(H * PX, cellHeight) + 2
        offsetXPixels == OffsetPixels(W, opts.offsetX)
        offsetYPixels == OffsetPixels(H, opts.offsetY)
        \* (Infinity * 0 is NaN: startX is not a number when cols is infinite)
        startX == IF colsInfinite THEN 0
                  ELSE (W * PX - (cols - 1) * cellWidth) \div 2 + offsetXPixels
        startY == IF rowsInfinite THEN 0
                  ELSE (H * PX - (rows - 1) * cellHeight) \div 2 + offsetYPixels
    IN [ mode |-> "tile", text |-> opts.text, rotation |-> opts.rotation,
         rotatedWidth |-> rotatedWidth, rotatedHeight |-> rotatedHeight,
         spacingGap |-> spacingGap,
         cellWidth |-> cellWidth, cellHeight |-> cellHeight,
         colsInfinite |-> colsInfinite, rowsInfinite |-> rowsInfinite,
         cols |-> cols, rows |-> rows,
         startX |-> startX, startY |-> startY,
         \* fillText(text, -textWidth / 2, textHeight / 4) in the rotated frame
         textX |-> -(m.textWidth \div 2), textY |-> m.textHeight \div 4 ]

\* The loops "for (row = -1; row < rows; row++) for (col = -1; col < cols;
\* col++)" never end when rows or cols is Infinity.
Diverges(g) == g.colsInfinite \/ g.rowsInfinite

\* centerX, centerY of the tile at (row, col).
CenterX(g, col) == g.startX + col * g.cellWidth + g.rotatedWidth \div 2
CenterY(g, row) == g.startY + row * g.cellHeight + g.rotatedHeight \div 2

\* The number of fillText calls of the two loops, when they end.
TileCount(g) == (g.rows + 1) * (g.cols + 1)

----------------------------------------------------------------------------
(* Single mode geometry *)

\* The base position (x, y) of the switch on options.position.
AnchorX(W, position, textWidth) ==
    CASE position = "center" -> (W * PX - textWidth) \div 2
      [] position \in {"top-left", "bottom-left"} -> 20 * PX
      [] position \in {"top-right", "bottom-right"} -> W * PX - textWidth - 20 * PX

\* A mutant of AnchorY: the centre places the top of the text box, not its
\* baseline.
AnchorY_BoxCentred(H, position, textHeight) ==
    CASE position = "center" -> (H * PX - textHeight) \div 2
      [] position \in {"top-left", "top-right"} -> 20 * PX + textHeight
      [] position \in {"bottom-left", "bottom-right"} -> H * PX - 20 * PX

AnchorY(H, position, textHeight) ==
    CASE position = "center" -> (H * PX + textHeight) \div 2
      [] position \in {"top-left", "top-right"} -> 20 * PX + textHeight
      [] position \in {"bottom-left", "bottom-right"} -> H * PX - 20 * PX

\* A mutant of SinglePlacement: the single watermark is moved by the tile
\* spacing.
SinglePlacement_Spaced(W, H, opts, m) ==
    LET x == AnchorX(W, opts.position, m.textWidth) + W * opts.offsetX * (PX \div 100)
               + SpacingGap(m.textWidth, opts.spacing)
        y == AnchorY(H, opts.position, m.textHeight) + H * opts.offsetY * (PX \div 100)
    IN [ mode |-> "single", text |-> opts.text, rotation |-> opts.rotation,
         x |-> x, y |-> y,
         pivotX |-> x + m.textWidth \div 2, pivotY |-> y - m.textHeight \div 2 ]

\* The single branch: the anchor shifted by the offsets, the pivot of the
\* rotation and the one fillText(text, x, y).
SinglePlacement(W, H, opts, m) ==
    LET x == AnchorX(W, opts.position, m.textWidth) + OffsetPixels(W, opts.offsetX)
        y == AnchorY(H, opts.position, m.textHeight) + OffsetPixels(H, opts.offsetY)
    IN [ mode |-> "single", text |-> opts.text, rotation |-> opts.rotation,
         x |-> x, y |-> y,
         pivotX |-> x + m.textWidth \div 2, pivotY |-> y - m.textHeight \div 2 ]

\* The fillText calls of one branch, drawn on surface c with the context's
\* current font, fill style and alpha.
FillText(surfs, c, placement) ==
    [ surfs EXCEPT ![c].marks =
        Append(@, [ placement |-> placement, font |-> surfs[c].font,
                    fillStyle |-> surfs[c].fillStyle, alpha |-> surfs[c].globalAlpha ]) ]

----------------------------------------------------------------------------
(* Encoding *)

\* format = exportOptions?.format || 'png'
FormatOf(exp) == IF exp.format = "" THEN "png" ELSE exp.format

\* A mutant of QualityOf: the default, whatever the caller asks for.
QualityOf_Default(exp) == 92

\* quality = exportOptions?.quality || 0.92  (0 is falsy)
QualityOf(exp) == IF exp.quality = 0 THEN 92 ELSE exp.quality

\* The switch on format.
MimeType(format) ==
    CASE format = "jpeg" -> "image/jpeg"
      [] format = "webp" -> "image/webp"
      [] OTHER -> "image/png"

\* The MIME types of the switch.
MimeTypes == {MimeType(format) : format \in Formats}

\* What the canvas of a browser encodes: PNG always, the other types where
\* the browser has an encoder for them.
EncoderSets == {MimeTypes, MimeTypes \ {"image/webp"}}

\* The type of the data toDataURL(type, ...) returns: the type asked for
\* where the browser encodes it, PNG where it does not.  toDataURL does not
\* throw for a type without encoder.
EncodedType(mimeType) == IF mimeType \in encoders THEN mimeType ELSE "image/png"

\* canvas.toDataURL(mimeType) for png, canvas.toDataURL(mimeType, quality)
\* otherwise: the encoded picture of surface s.  mimeType, hasQuality and
\* quality are the arguments of the call, type is the type of the data.
ToDataURL(s, exp) ==
    [ mimeType |-> MimeType(FormatOf(exp)),
      hasQuality |-> FormatOf(exp) # "png",
      quality |-> IF FormatOf(exp) = "png" THEN 0 ELSE QualityOf(exp),
      type |-> EncodedType(MimeType(FormatOf(exp))),
      width |-> s.width, height |-> s.height,
      base |-> s.base, marks |-> s.marks ]

\* The whole of addWatermark(image, options, exportOptions) on the surfaces
\* surfs: the surfaces after the call, the call's canvas, whether the promise
\* resolves (the tile loops end) and the data URL it resolves with.
AddWatermark(surfs, img, opts, exp) ==
    LET created == CreateCanvas(surfs, img)
        c == NewCanvasId(surfs, created)
        styled == SetStyle(DrawImage(created, c, img), c, opts)
        m == Metrics(opts)
        tile == opts.mode = "tile"
        placement == IF tile
                     THEN TileGrid(styled[c].width, styled[c].height, opts, m)
                     ELSE SinglePlacement(styled[c].width, styled[c].height, opts, m)
        drawn == FillText(styled, c, placement)
    IN [ surfaces |-> drawn, canvas |-> c,
         resolves |-> ~(tile /\ Diverges(placement)),
         dataUrl |-> ToDataURL(drawn[c], exp) ]

----------------------------------------------------------------------------
(* One call of addWatermark, step by step *)

\* canvas.width, canvas.height in pixels
W == surfaces[canvas].width
H == surfaces[canvas].height

\* Lines 437-455: the canvas, the source drawn on it, the style, the metrics.
Begin ==
    /\ pc = "start"
    /\ LET created == CreateCanvas(surfaces, image)
           c == NewCanvasId(surfaces, created)
       IN /\ canvas' = c
          /\ surfaces' = SetStyle(DrawImage(created, c, image), c, options)
    /\ metrics' = Metrics(options)
    /\ pc' = "measured"
    /\ UNCHANGED <<image, options, exportOptions, dataUrl, running,
                   appVars>>

\* Lines 457-506: the tile branch.  With an infinite number of rows or
\* columns the loops never end and the promise never resolves.
PlaceTile ==
    /\ pc = "measured"
    /\ options.mode = "tile"
    /\ LET g == TileGrid(W, H, options, metrics)
       IN /\ surfaces' = FillText(surfaces, canvas, g)
          /\ pc' = IF Diverges(g) THEN "looping" ELSE "placed"
    /\ UNCHANGED <<image, options, exportOptions, canvas, metrics, dataUrl, running,
                   appVars>>

\* Lines 507-555: the single branch.
PlaceSingle ==
    /\ pc = "measured"
    /\ options.mode # "tile"
    /\ surfaces' = FillText(surfaces, canvas, SinglePlacement(W, H, options, metrics))
    /\ pc' = "placed"
    /\ UNCHANGED <<image, options, exportOptions, canvas, metrics, dataUrl, running,
                   appVars>>

\* Lines 557-580: the data URL, and resolve(dataUrl).
Encode ==
    /\ pc = "placed"
    /\ dataUrl' = ToDataURL(surfaces[canvas], exportOptions)
    /\ pc' = "resolved"
    /\ UNCHANGED <<image, options, exportOptions, surfaces, canvas, metrics, running,
                   appVars>>

----------------------------------------------------------------------------
(* App: files, options and the values of useState *)

\* The debounce delay of the effect's setTimeout, in ms.
DebounceMs == 300

NoImage == -1
NoTimer == -1

NoFile == [name |-> << >>, type |-> "", width |-> 0, height |-> 0]

\* The files the user can pick: name, MIME type as the browser reports it,
\* and the size of the picture the bytes decode to.
Files ==
    { [ name |-> <<"i", "d", ".", "v", "2", ".", "p", "n", "g">>, type |-> "image/png",
        width |-> 800, height |-> 600 ],
      [ name |-> <<"I", "M", "G", ".", "H", "E", "I", "C">>, type |-> "",
        width |-> 2000, height |-> 2000 ],
      [ name |-> <<"a", ".", "t", "x", "t">>, type |-> "text/plain",
        width |-> 0, height |-> 0 ] }

Upper == <<"C", "E", "F", "G", "H", "I", "M">>
Lower == <<"c", "e", "f", "g", "h", "i", "m">>

\* String.prototype.toLowerCase, on the letters of the model's names.
ToLowerCase(name) ==
    [ k \in DOMAIN name |->
        IF \E u \in DOMAIN Upper : Upper[u] = name[k]
        THEN Lower[CHOOSE u \in DOMAIN Upper : Upper[u] = name[k]]
        ELSE name[k] ]

\* String.prototype.endsWith
EndsWith(name, suffix) ==
    /\ Len(name) >= Len(suffix)
    /\ SubSeq(name, Len(name) - Len(suffix) + 1, Len(name)) = suffix

\* file.name.toLowerCase().endsWith('.heic') || ...endsWith('.heif')
IsHeicName(file) ==
    \/ EndsWith(ToLowerCase(file.name), <<".", "h", "e", "i", "c">>)
    \/ EndsWith(ToLowerCase(file.name), <<".", "h", "e", "i", "f">>)

\* file.type.startsWith('image/')
IsImageType(file) ==
    file.type \in {"image/png", "image/jpeg", "image/webp", "image/heic", "image/heif"}

\* isImage of handleFileChange
IsImage(file) == IsImageType(file) \/ IsHeicName(file)

\* The preview URLs: '', URL.createObjectURL(file), img.src.
NoPreview == [kind |-> "", name |-> << >>]
ObjectUrl(file) == [kind |-> "blob", name |-> file.name]
ImageSrc(file) == [kind |-> "data", name |-> file.name]

\* The initial watermarkOptions of useState.
DefaultOptions ==
    [ text |-> <<"J", "G", "X", "X", "X", "S", "Y">>, fontSize |-> 40,
      color |-> "#FF0000", opacity |-> 5, position |-> "center", rotation |-> -45,
      mode |-> "tile", spacing |-> 50, offsetX |-> 0, offsetY |-> 0 ]

\* The values the user gives the controls in the model.
Controls == {"text", "rotation"}

ControlValues(field) ==
    CASE field = "text" -> {DefaultOptions.text, << >>}
      [] field = "rotation" -> {-45, 0}
      [] field = "mode" -> Modes

ExportQualities == {92, 100}

\* The watermarkOptions the controls can produce.
AppOptions ==
    { [DefaultOptions EXCEPT !.text = text, !.rotation = rotation] :
        text \in ControlValues("text"), rotation \in ControlValues("rotation") }

\* A mutant of PreviewEncoding: the preview is encoded like the export.
PreviewEncoding_AsExport == [format |-> exportFormat, quality |-> exportQuality]

\* generateWatermark's fixed export options: { format: 'png', quality: 1 }.
PreviewEncoding == [format |-> "png", quality |-> 100]

\* handleDownload's export options: { format: exportFormat, quality:
\* exportQuality / 100 } (quality in hundredths).
ExportEncoding(format, quality) == [format |-> format, quality |-> quality]

----------------------------------------------------------------------------
(* loadImage *)

\* The quality heic2any is asked for, in hundredths.
HeicQuality == 95

\* A mutant of IsHeic: the test of handleFileChange, by the name alone.
IsHeic_ByName(file) == IsHeicName(file)

\* isHeic of loadImage: by the type or by the name.
IsHeic(file) == file.type \in {"image/heic", "image/heif"} \/ IsHeicName(file)

\* What can go wrong outside the code: heic2any rejects, the FileReader
\* fails, the bytes do not decode to a picture.
Faults == {"none", "convert", "read", "decode"}

\* A mutant of Failure: the Image has no onerror handler.
Failure_NoOnError(converts, fault) ==
    IF converts /\ fault = "convert" THEN "HEIC conversion failed"
    ELSE IF fault = "read" THEN "file read failed"
    ELSE ""

\* The message of the Error loadImage is rejected with, "" where it
\* resolves: the catch around heic2any, reader.onerror, img.onerror.
Failure(converts, fault) ==
    IF converts /\ fault = "convert" THEN "HEIC conversion failed"
    ELSE IF fault = "read" THEN "file read failed"
    ELSE IF fault = "decode" THEN "image load failed"
    ELSE ""

\* loadImage(file) under a fault: whether heic2any is called and with which
\* toType and quality, which bytes go to the FileReader and the Image, how
\* the promise settles and the message of the Error it is rejected with.
LoadImage(file, fault) ==
    LET converts == IsHeic(file)
        failure == Failure(converts, fault)
    IN [ file |-> file,
         fault |-> IF fault = "convert" /\ ~converts THEN "none" ELSE fault,
         converts |-> converts,
         toType |-> IF converts THEN "image/jpeg" ELSE "",
         quality |-> IF converts THEN HeicQuality ELSE 0,
         decodes |-> IF converts /\ fault = "convert" THEN ""
                     ELSE IF converts THEN "converted" ELSE "original",
         outcome |-> IF failure = "" THEN "resolved" ELSE "rejected",
         message |-> failure ]

----------------------------------------------------------------------------
(* The debounce effect *)

TimerIds(ts) == {t.id : t \in ts}

\* The id setTimeout returns: one no pending timer has.
FreshTimer(ts) == CHOOSE i \in 0..Cardinality(ts) : i \notin TimerIds(ts)

\* A mutant of Cleanup: the effect returns no cleanup.
Cleanup_Nothing(ts, held) == ts

\* The effect's cleanup, return () => clearTimeout(debounceTimer): the timer
\* the previous run of the effect set is cancelled.
Cleanup(ts, held) == {t \in ts : t.id # held}

\* A mutant of Setup: the callback is the generateWatermark of the first
\* render, which closes over the watermarkOptions App was mounted with.
Setup_FirstRender(ts, img, opts) ==
    IF img # NoImage
    THEN ts \cup { [ id |-> FreshTimer(ts), image |-> img, options |-> DefaultOptions,
                     remaining |-> DebounceMs ] }
    ELSE ts

\* The effect's body: with an image loaded, a timer of 300 ms whose callback
\* calls the generateWatermark of this render, which closes over this
\* render's originalImage and watermarkOptions.
Setup(ts, img, opts) ==
    IF img # NoImage
    THEN ts \cup { [ id |-> FreshTimer(ts), image |-> img, options |-> opts,
                     remaining |-> DebounceMs ] }
    ELSE ts

\* The timer the new cleanup closure holds.
Held(ts, img) == IF img # NoImage THEN FreshTimer(ts) ELSE NoTimer

\* React runs the effect when watermarkOptions or originalImage changed: the
\* previous cleanup, then the body.
RunEffect(img, opts) ==
    /\ timers' = Setup(Cleanup(timers, effectTimer), img, opts)
    /\ effectTimer' = Held(Cleanup(timers, effectTimer), img)
    /\ elapsed' = 0

\* The surfaces App still references: the loaded image and the images
\* pending timer closures hold.
Released(surfs, img, ts) ==
    LET live == ({img} \cup {t.image : t \in ts}) \cap DOMAIN surfs
    IN [i \in live |-> surfs[i]]

\* The surfaces still referenced once a handler has returned: those of App
\* and, while a call of addWatermark has not settled, its image and its
\* canvas.  Canvases of finished calls are garbage.
Collect(surfs, img, ts) ==
    LET live == ({img} \cup {t.image : t \in ts}
                    \cup (IF running = << >> THEN {} ELSE {image, canvas}))
                \cap DOMAIN surfs
    IN [i \in live |-> surfs[i]]

----------------------------------------------------------------------------
(* The observers *)

NoRequest == [kind |-> "", format |-> "", quality |-> 0]
NoDownload == [filename |-> << >>, mimeType |-> ""]
NoLoad == [ file |-> NoFile, fault |-> "", converts |-> FALSE, toType |-> "", quality |-> 0,
            decodes |-> "", outcome |-> "", message |-> "" ]
NoRef == [kind |-> "", image |-> NoFile.name, options |-> DefaultOptions,
          exportOptions |-> Undefined, dataUrl |-> NoUrl]

\* alert(message), as the observers see it.
Alert(message) == IF "alert" \in observe THEN message ELSE lastAlert

\* The call of loadImage that settled, as the observers see it.
Loaded(load) == IF "load" \in observe THEN load ELSE lastLoad

\* The arguments of a call by value: the image's pixels, the options and the
\* export options.
SameArguments(r, surfs, img, opts, exp) ==
    /\ r.kind # ""
    /\ r.image = surfs[img].pixels
    /\ r.options = opts
    /\ r.exportOptions = exp

\* A call that resolved, as the observers see it.
ObserveCall(kind, surfs, img, opts, exp, result) ==
    /\ lastRequest' = IF "request" \in observe
                      THEN [kind |-> kind, format |-> exp.format, quality |-> exp.quality]
                      ELSE lastRequest
    /\ IF "ref" \notin observe
       THEN UNCHANGED <<ref, again>>
       ELSE IF ref = NoRef
            THEN /\ ref' = [ kind |-> kind, image |-> surfs[img].pixels,
                             options |-> opts, exportOptions |-> exp,
                             dataUrl |-> result.dataUrl ]
                 /\ UNCHANGED again
            ELSE /\ again' = IF SameArguments(ref, surfs, img, opts, exp)
                             THEN result.dataUrl
                             ELSE again
                 /\ UNCHANGED ref

----------------------------------------------------------------------------
(* App: the handlers *)

\* handleFileChange up to "await loadImage(file)".
SelectFile(file) ==
    /\ ~hung
    /\ file \notin loads
    /\ IF IsImage(file)
       THEN /\ selectedFile' = file
            /\ IF IsHeicName(file)
               THEN previewUrl' = NoPreview /\ isProcessing' = TRUE
               ELSE previewUrl' = ObjectUrl(file) /\ UNCHANGED isProcessing
            /\ loads' = loads \cup {file}
            /\ UNCHANGED lastAlert
       ELSE /\ lastAlert' = Alert("invalid file")
            /\ UNCHANGED <<selectedFile, previewUrl, isProcessing, loads>>
    /\ afterReset' = IF IsImage(file) THEN FALSE ELSE afterReset
    /\ UNCHANGED <<originalImage, watermarkedUrl, exportFormat, exportQuality,
                   showWatermark, watermarkOptions, timers, effectTimer, elapsed, hung,
                   observe, lastRequest, lastDownload, lastLoad, ref, again,
                   folder, encoders, callVars, surfaces>>
    /\ UNCHANGED viewer

\* loadImage resolved: the rest of handleFileChange's try block.  The new
\* originalImage re-runs the effect.
LoadResolved(file) ==
    /\ ~hung
    /\ file \in loads
    /\ loads' = loads \ {file}
    /\ \E fault \in Faults :
          /\ LoadImage(file, fault).outcome = "resolved"
          /\ lastLoad' = Loaded(LoadImage(file, fault))
    /\ LET id == FreshId(surfaces)
           loaded == [ i \in DOMAIN surfaces \cup {id} |->
                         IF i = id
                         THEN ImageSurface(file.width, file.height, file.name)
                         ELSE surfaces[i] ]
       IN /\ originalImage' = id
          /\ RunEffect(id, watermarkOptions)
          /\ surfaces' = Collect(loaded, id, timers')
    /\ previewUrl' = IF IsHeicName(file) THEN ImageSrc(file) ELSE previewUrl
    /\ isProcessing' = FALSE
    /\ UNCHANGED <<selectedFile, watermarkedUrl, exportFormat, exportQuality,
                   showWatermark, watermarkOptions, hung, lastAlert, observe,
                   lastRequest, lastDownload, ref, again, afterReset, folder, encoders,
                   callVars>>
    /\ UNCHANGED viewer

\* loadImage rejected: handleFileChange's catch block, which alerts the
\* message of the error.
LoadRejected(file) ==
    /\ ~hung
    /\ file \in loads
    /\ loads' = loads \ {file}
    /\ \E fault \in Faults :
          /\ LoadImage(file, fault).outcome = "rejected"
          /\ lastAlert' = Alert(LoadImage(file, fault).message)
          /\ lastLoad' = Loaded(LoadImage(file, fault))
    /\ isProcessing' = FALSE
    /\ selectedFile' = NoFile
    /\ previewUrl' = NoPreview
    /\ UNCHANGED <<originalImage, watermarkedUrl, exportFormat, exportQuality,
                   showWatermark, watermarkOptions, timers, effectTimer, elapsed, hung,
                   observe, lastRequest, lastDownload, ref, again, afterReset, folder,
                   encoders,
                   callVars, surfaces>>
    /\ UNCHANGED viewer

\* A control of the watermark panel: setWatermarkOptions({...watermarkOptions,
\* [field]: value}).  The new watermarkOptions re-runs the effect.
SetOption(field, value) ==
    /\ ~hung
    /\ watermarkOptions[field] # value
    /\ watermarkOptions' = [watermarkOptions EXCEPT ![field] = value]
    /\ RunEffect(originalImage, watermarkOptions')
    /\ UNCHANGED <<selectedFile, originalImage, previewUrl, watermarkedUrl, isProcessing,
                   exportFormat, exportQuality, showWatermark, loads, hung, lastAlert,
                   observerVars, folder, encoders, callVars, surfaces>>
    /\ UNCHANGED viewer

\* The export settings are shown with a preview, in watermark mode.
ExportSettingsShown == watermarkedUrl # NoUrl /\ showWatermark

\* setExportFormat(format)
SetExportFormat(format) ==
    /\ ~hung
    /\ ExportSettingsShown
    /\ exportFormat # format
    /\ exportFormat' = format
    /\ UNCHANGED <<selectedFile, originalImage, previewUrl, watermarkedUrl, isProcessing,
                   exportQuality, showWatermark, watermarkOptions, browserVars,
                   observerVars, callVars, surfaces>>
    /\ UNCHANGED viewer

\* setExportQuality(Number(e.target.value)): the slider is shown for JPEG and
\* WebP.
SetExportQuality(quality) ==
    /\ ~hung
    /\ ExportSettingsShown
    /\ exportFormat \in {"jpeg", "webp"}
    /\ exportQuality # quality
    /\ exportQuality' = quality
    /\ UNCHANGED <<selectedFile, originalImage, previewUrl, watermarkedUrl, isProcessing,
                   exportFormat, showWatermark, watermarkOptions, browserVars,
                   observerVars, callVars, surfaces>>
    /\ UNCHANGED viewer

\* setShowWatermark(!showWatermark): the switch is shown with a preview.
ToggleShowWatermark ==
    /\ ~hung
    /\ watermarkedUrl # NoUrl
    /\ showWatermark' = ~showWatermark
    /\ UNCHANGED <<selectedFile, originalImage, previewUrl, watermarkedUrl, isProcessing,
                   exportFormat, exportQuality, watermarkOptions, browserVars,
                   observerVars, callVars, surfaces>>
    /\ UNCHANGED viewer

\* Time passes: 100 ms.
Tick ==
    /\ ~hung
    /\ elapsed' = IF elapsed + 100 > DebounceMs THEN DebounceMs ELSE elapsed + 100
    /\ timers' = { [t EXCEPT !.remaining = IF @ > 100 THEN @ - 100 ELSE 0] : t \in timers }
    /\ UNCHANGED <<stateVars, effectTimer, loads, hung, lastAlert, observerVars,
                   folder, encoders, callVars, surfaces>>
    /\ UNCHANGED viewer

\* A timer is due: its callback runs generateWatermark, the one of the render
\* that set the timer.  addWatermark runs to its end inside the call and the
\* continuation after "await" is the next microtask, so no other handler
\* runs in between.
TimerFires(t) ==
    /\ ~hung
    /\ t \in timers
    /\ t.remaining = 0
    /\ timers' = timers \ {t}
    /\ IF t.image = NoImage
       THEN UNCHANGED <<watermarkedUrl, isProcessing, hung, observerVars, surfaces>>
       ELSE LET result == AddWatermark(surfaces, t.image, t.options, PreviewEncoding)
            IN IF result.resolves
               THEN /\ watermarkedUrl' = result.dataUrl
                    /\ isProcessing' = FALSE
                    /\ surfaces' = Collect(result.surfaces, originalImage, timers')
                    /\ ObserveCall("preview", surfaces, t.image, t.options,
                                   PreviewEncoding, result)
                    /\ UNCHANGED <<hung, observe, lastDownload, lastLoad, afterReset>>
               ELSE /\ hung' = TRUE
                    /\ isProcessing' = TRUE
                    /\ surfaces' = result.surfaces
                    /\ UNCHANGED <<watermarkedUrl, observerVars>>
    /\ UNCHANGED <<selectedFile, originalImage, previewUrl, exportFormat, exportQuality,
                   showWatermark, watermarkOptions, effectTimer, loads, elapsed,
                   lastAlert, folder, encoders, callVars>>
    /\ UNCHANGED viewer

\* A mutant of NameWithoutExt: the name is cut at its first dot.
NameWithoutExt_FirstDot(name) ==
    LET dots == {k \in DOMAIN name : name[k] = "."}
    IN IF dots = {} THEN name
       ELSE SubSeq(name, 1, (CHOOSE k \in dots : \A j \in dots : k <= j) - 1)

\* originalName.replace(/\.[^/.]+$/, ''): the name without its last
\* extension, a dot followed to the end by one or more characters that are
\* neither dots nor slashes.
NameWithoutExt(name) ==
    LET dots == { k \in DOMAIN name :
                    /\ name[k] = "."
                    /\ k < Len(name)
                    /\ \A j \in (k + 1)..Len(name) : name[j] \notin {".", "/"} }
    IN IF dots = {} THEN name
       ELSE SubSeq(name, 1, (CHOOSE k \in dots : TRUE) - 1)

\* exportFormat === 'jpeg' ? 'jpg' : exportFormat
Extension(format) == IF format = "jpeg" THEN "jpg" ELSE format

\* `watermarked_${nameWithoutExt}.${extension}`, as the sequence of its
\* pieces; selectedFile?.name || 'image'.
Filename(file, format) ==
    LET originalName == IF file.name = << >> THEN <<"image">> ELSE file.name
    IN <<"watermarked_">> \o NameWithoutExt(originalName) \o <<".", Extension(format)>>

\* The download button is in the preview panel and enabled in watermark mode
\* while nothing is processing.
DownloadEnabled == watermarkedUrl # NoUrl /\ showWatermark /\ ~isProcessing

\* handleDownload, with the render's state.
Download ==
    /\ ~hung
    /\ DownloadEnabled
    /\ IF originalImage = NoImage
       THEN UNCHANGED <<isProcessing, hung, observerVars, surfaces>>
       ELSE LET exp == ExportEncoding(exportFormat, exportQuality)
                result == AddWatermark(surfaces, originalImage, watermarkOptions, exp)
            IN IF result.resolves
               THEN /\ isProcessing' = FALSE
                    /\ surfaces' = Collect(result.surfaces, originalImage, timers)
                    /\ ObserveCall("export", surfaces, originalImage, watermarkOptions,
                                   exp, result)
                    /\ lastDownload' =
                         IF "download" \in observe
                         THEN [ filename |-> Filename(selectedFile, exportFormat),
                                mimeType |-> result.dataUrl.mimeType ]
                         ELSE lastDownload
                    /\ UNCHANGED <<hung, observe, lastLoad, afterReset>>
               ELSE /\ hung' = TRUE
                    /\ isProcessing' = TRUE
                    /\ surfaces' = result.surfaces
                    /\ UNCHANGED observerVars
    /\ UNCHANGED <<selectedFile, originalImage, previewUrl, watermarkedUrl, exportFormat,
                   exportQuality, showWatermark, watermarkOptions, timers, effectTimer,
                   loads, elapsed, lastAlert, folder, encoders, callVars>>
    /\ UNCHANGED viewer

\* A mutant of Reset: the effect does not run again, the pending timer stays.
Reset_KeepsTimer ==
    /\ ~hung
    /\ watermarkedUrl # NoUrl
    /\ selectedFile' = NoFile
    /\ originalImage' = NoImage
    /\ previewUrl' = NoPreview
    /\ watermarkedUrl' = NoUrl
    /\ UNCHANGED <<timers, effectTimer, elapsed>>
    /\ surfaces' = Collect(surfaces, NoImage, timers')
    /\ afterReset' = ("reset" \in observe)
    /\ UNCHANGED <<isProcessing, exportFormat, exportQuality, showWatermark,
                   watermarkOptions, loads, hung, lastAlert, observe, lastRequest,
                   lastDownload, lastLoad, ref, again, folder, encoders, callVars>>
    /\ UNCHANGED viewer

\* handleReset; the button is in the preview panel.  originalImage = null
\* re-runs the effect, which sets no timer.
Reset ==
    /\ ~hung
    /\ watermarkedUrl # NoUrl
    /\ selectedFile' = NoFile
    /\ originalImage' = NoImage
    /\ previewUrl' = NoPreview
    /\ watermarkedUrl' = NoUrl
    /\ IF originalImage # NoImage
       THEN RunEffect(NoImage, watermarkOptions)
       ELSE UNCHANGED <<timers, effectTimer, elapsed>>
    /\ surfaces' = Collect(surfaces, NoImage, timers')
    /\ afterReset' = ("reset" \in observe)
    /\ UNCHANGED <<isProcessing, exportFormat, exportQuality, showWatermark,
                   watermarkOptions, loads, hung, lastAlert, observe, lastRequest,
                   lastDownload, lastLoad, ref, again, folder, encoders, callVars>>
    /\ UNCHANGED viewer

----------------------------------------------------------------------------
(* App: the handlers that render, step by step *)

\* A mutant of Yields: the encoding is handed to a callback, as with
\* canvas.toBlob, and the executor returns before it.
Yields_BeforeEncoding(p) == p = "placed"

\* Whether addWatermark gives the thread back to the event loop at step p of
\* its executor.  The executor holds no await and registers no callback: it
\* runs from createElement to resolve(dataUrl) in the task that called it.
Yields(p) == FALSE

\* The event loop takes the next task (an event handler, a timer callback, a
\* promise reaction of loadImage) when no handler is running and the
\* reactions of settled promises have run.
StackEmpty == pc = "idle" \/ Yields(pc)

\* addWatermark(img, opts, exp) is called by caller.
StartCall(caller, img, opts, exp) ==
    /\ image' = img
    /\ options' = opts
    /\ exportOptions' = exp
    /\ canvas' = NoCanvas
    /\ metrics' = NoMetrics
    /\ pc' = "start"
    /\ dataUrl' = NoUrl
    /\ running' = Append(running, caller)

\* A due timer's callback: generateWatermark up to its await.
TimerStarts(t) ==
    /\ ~hung
    /\ t \in timers
    /\ t.remaining = 0
    /\ t.image # NoImage
    /\ timers' = timers \ {t}
    /\ isProcessing' = TRUE
    /\ StartCall("generateWatermark", t.image, t.options, PreviewEncoding)
    /\ UNCHANGED <<selectedFile, originalImage, previewUrl, watermarkedUrl, exportFormat,
                   exportQuality, showWatermark, watermarkOptions, effectTimer, loads,
                   elapsed, hung, lastAlert, folder, encoders, observerVars, surfaces>>
    /\ UNCHANGED viewer

\* A click on the download button: handleDownload up to its await.
DownloadStarts ==
    /\ ~hung
    /\ DownloadEnabled
    /\ originalImage # NoImage
    /\ isProcessing' = TRUE
    /\ StartCall("handleDownload", originalImage, watermarkOptions,
                 ExportEncoding(exportFormat, exportQuality))
    /\ UNCHANGED <<selectedFile, originalImage, previewUrl, watermarkedUrl, exportFormat,
                   exportQuality, showWatermark, watermarkOptions, browserVars,
                   observerVars, surfaces>>
    /\ UNCHANGED viewer

\* canvas.getContext('2d') returns null: ctx.drawImage throws a TypeError in
\* the executor and the promise is rejected.
BeginFails ==
    /\ pc = "start"
    /\ LET created == CreateCanvas(surfaces, image)
       IN /\ canvas' = NewCanvasId(surfaces, created)
          /\ surfaces' = created
    /\ pc' = "rejected"
    /\ UNCHANGED <<image, options, exportOptions, metrics, dataUrl, running, appVars>>

\* The alerts of the two catch blocks.
RenderAlert(caller) ==
    IF caller = "generateWatermark" THEN "watermark failed" ELSE "download failed"

\* A mutant of ShownAfter: generateWatermark shows what the call left,
\* settled either way.
ShownAfter_Settled(caller) ==
    IF caller = "generateWatermark" THEN dataUrl ELSE watermarkedUrl

\* watermarkedUrl after the call has settled: setWatermarkedUrl(result) is in
\* generateWatermark's try block after the await, nowhere else.
ShownAfter(caller) ==
    IF pc = "resolved" /\ caller = "generateWatermark" THEN dataUrl ELSE watermarkedUrl

\* The promise has settled: the rest of the caller, its try block after the
\* await or its catch block, and its finally block.
Settles ==
    /\ pc \in {"resolved", "rejected"}
    /\ running # << >>
    /\ LET caller == Head(running) IN
       /\ watermarkedUrl' = ShownAfter(caller)
       /\ lastDownload' = IF pc = "resolved" /\ caller = "handleDownload"
                             /\ "download" \in observe
                          THEN [ filename |-> Filename(selectedFile, exportFormat),
                                 mimeType |-> dataUrl.mimeType ]
                          ELSE lastDownload
       /\ lastAlert' = IF pc = "rejected" THEN Alert(RenderAlert(caller)) ELSE lastAlert
    /\ isProcessing' = FALSE
    /\ running' = Tail(running)
    /\ image' = NoImage
    /\ options' = DefaultOptions
    /\ exportOptions' = Undefined
    /\ canvas' = NoCanvas
    /\ metrics' = NoMetrics
    /\ pc' = "idle"
    /\ dataUrl' = NoUrl
    /\ surfaces' = Released(surfaces, originalImage, timers)
    /\ UNCHANGED <<selectedFile, originalImage, previewUrl, exportFormat, exportQuality,
                   showWatermark, watermarkOptions, timers, effectTimer, loads, elapsed,
                   hung, folder, encoders, observe, lastRequest, lastLoad, ref, again,
                   afterReset>>
    /\ UNCHANGED viewer

----------------------------------------------------------------------------
(* The ImageViewer component *)

\* The scale in hundredths: ZOOM_STEP = 0.2, WHEEL_ZOOM_STEP = 0.05,
\* MIN_SCALE = 0.1, MAX_SCALE = 5.
ZOOM_STEP == 20
WHEEL_ZOOM_STEP == 5
MIN_SCALE == 10
MAX_SCALE == 500

\* Quarter turns in each direction and pixels dragged in each direction.
MaxTurns == 1
MaxDrag == 10

\* Where the pointer or the one finger is (clientX, clientY), and how far
\* apart two fingers are (Math.hypot of their distance, in pixels).
Points == {<<0, 0>>, <<10, 5>>}
PinchDistances == {100, 600}

NoDistance == -1
NoFrame == << >>

Min(a, b) == IF a < b THEN a ELSE b
Max(a, b) == IF a > b THEN a ELSE b

\* A mutant of Clamp: the upper limit alone.
Clamp_NoMinimum(newScale) == Min(newScale, MAX_SCALE)

\* Math.max(MIN_SCALE, Math.min(newScale, MAX_SCALE))
Clamp(newScale) == Max(MIN_SCALE, Min(newScale, MAX_SCALE))

\* The values of useState, wheelTimerRef.current (set or null), the
\* position the callbacks given to requestAnimationFrame will set (they all
\* run in the next frame, in the order of their requests, so the last one
\* decides), and whether the last handler that ran was reset.
ViewerMounted ==
    [ scale |-> 100, rotation |-> 0, position |-> <<0, 0>>,
      isDragging |-> FALSE, dragStart |-> <<0, 0>>,
      lastTouchDistance |-> NoDistance, wheelTimer |-> FALSE,
      frame |-> NoFrame, event |-> "" ]

\* A handler other than reset changes the viewer.
Handle(changed) ==
    /\ viewer' = [changed EXCEPT !.event = ""]
    /\ UNCHANGED <<callVars, surfaces, stateVars, browserVars, observerVars>>

\* zoomIn; its button is disabled at MAX_SCALE.
ZoomIn ==
    /\ viewer.scale < MAX_SCALE
    /\ Handle([viewer EXCEPT !.scale = Min(@ + ZOOM_STEP, MAX_SCALE)])

\* zoomOut; its button is disabled at MIN_SCALE.
ZoomOut ==
    /\ viewer.scale > MIN_SCALE
    /\ Handle([viewer EXCEPT !.scale = Max(@ - ZOOM_STEP, MIN_SCALE)])

RotateLeft ==
    /\ viewer.rotation - 90 >= -90 * MaxTurns
    /\ Handle([viewer EXCEPT !.rotation = @ - 90])

RotateRight ==
    /\ viewer.rotation + 90 <= 90 * MaxTurns
    /\ Handle([viewer EXCEPT !.rotation = @ + 90])

\* reset
ViewerReset ==
    /\ viewer' = [viewer EXCEPT !.scale = 100, !.rotation = 0,
                                !.position = <<0, 0>>, !.event = "reset"]
    /\ UNCHANGED <<callVars, surfaces, stateVars, browserVars, observerVars>>

FitToScreen ==
    Handle([viewer EXCEPT !.scale = 100, !.position = <<0, 0>>])

\* dragStart = client - position
DragFrom(point) ==
    <<point[1] - viewer.position[1], point[2] - viewer.position[2]>>

\* position = client - dragStart, set in the next animation frame.
DragTo(point) ==
    <<point[1] - viewer.dragStart[1], point[2] - viewer.dragStart[2]>>

Abs(n) == IF n < 0 THEN -n ELSE n

\* The drag stays within the pixels modelled.
CanDragTo(point) ==
    /\ Abs(DragTo(point)[1]) <= MaxDrag
    /\ Abs(DragTo(point)[2]) <= MaxDrag

\* handleMouseDown with the left button, and handleTouchStart with one
\* finger, which makes the same assignments.
DragStarts(point) ==
    Handle([viewer EXCEPT !.isDragging = TRUE, !.dragStart = DragFrom(point)])

\* handleMouseMove, and handleTouchMove with one finger.
DragMoves(point) ==
    /\ viewer.isDragging
    /\ CanDragTo(point)
    /\ Handle([viewer EXCEPT !.frame = DragTo(point)])

\* handleMouseUp, also on mouseleave.
MouseUp ==
    /\ viewer.isDragging
    /\ Handle([viewer EXCEPT !.isDragging = FALSE])

\* The next frame: the browser runs the callbacks given to
\* requestAnimationFrame.
FrameRuns ==
    /\ viewer.frame # NoFrame
    /\ Handle([viewer EXCEPT !.position = viewer.frame, !.frame = NoFrame])

\* handleTouchStart with two fingers.
TouchStartTwo(distance) ==
    Handle([viewer EXCEPT !.lastTouchDistance = distance, !.isDragging = FALSE])

\* handleTouchMove with two fingers: delta = (distance - lastTouchDistance)
\* * 0.01, that is their difference in hundredths.
TouchMoveTwo(distance) ==
    Handle([viewer EXCEPT
              !.scale = IF viewer.lastTouchDistance # NoDistance
                        THEN Clamp(@ + (distance - viewer.lastTouchDistance))
                        ELSE @,
              !.lastTouchDistance = distance])

\* handleTouchEnd
TouchEnd ==
    /\ viewer.isDragging \/ viewer.lastTouchDistance # NoDistance
    /\ Handle([viewer EXCEPT !.isDragging = FALSE, !.lastTouchDistance = NoDistance])

\* handleWheel outside the 16 ms after the last wheel event that zoomed:
\* deltaY > 0 zooms out, any other deltaY zooms in.
Wheel(deltaY) ==
    /\ ~viewer.wheelTimer
    /\ Handle([viewer EXCEPT
                 !.scale = Clamp(@ + (IF deltaY > 0 THEN -WHEEL_ZOOM_STEP
                                                     ELSE WHEEL_ZOOM_STEP)),
                 !.wheelTimer = TRUE])

\* The throttle timer of handleWheel fires.
WheelTimerFires ==
    /\ viewer.wheelTimer
    /\ Handle([viewer EXCEPT !.wheelTimer = FALSE])

----------------------------------------------------------------------------
(* Specifications *)

\* No call of addWatermark is being followed step by step.
CallIdle ==
    /\ image = NoImage
    /\ options = DefaultOptions
    /\ exportOptions = Undefined
    /\ canvas = NoCanvas
    /\ metrics = NoMetrics
    /\ pc = "idle"
    /\ dataUrl = NoUrl
    /\ running = << >>

\* App as mounted: the values of useState; the effect has run once, with no
\* image, and set no timer.
AppMounted ==
    /\ selectedFile = NoFile
    /\ originalImage = NoImage
    /\ previewUrl = NoPreview
    /\ watermarkedUrl = NoUrl
    /\ isProcessing = FALSE
    /\ exportFormat = "png"
    /\ exportQuality = 92
    /\ showWatermark = TRUE
    /\ watermarkOptions = DefaultOptions
    /\ timers = {}
    /\ effectTimer = NoTimer
    /\ loads = {}
    /\ elapsed = 0
    /\ hung = FALSE
    /\ lastAlert = ""
    /\ lastRequest = NoRequest
    /\ lastDownload = NoDownload
    /\ lastLoad = NoLoad
    /\ ref = NoRef
    /\ again = NoUrl
    /\ afterReset = FALSE
    /\ viewer = ViewerMounted

\* A call with any decoded image, any options and any export options.
InitRender ==
    /\ image = 0
    /\ \E size \in ImageSizes :
          surfaces = (0 :> ImageSurface(size[1], size[2], <<"source">>))
    /\ options \in OptionsSet
    /\ exportOptions \in ExportOptionsSet \cup {Undefined}
    /\ canvas = NoCanvas
    /\ metrics = NoMetrics
    /\ pc = "start"
    /\ dataUrl = NoUrl
    /\ running = <<"caller">>
    /\ AppMounted
    /\ folder = {}
    /\ encoders = MimeTypes
    /\ observe = {}

NextRender == Begin \/ PlaceTile \/ PlaceSingle \/ Encode

\* Export options of every format, with qualities from 0.01 to 1 and
\* without quality (0).
ExportSpace ==
    [format : Formats, quality : {0, 1, 50, 92, 100}] \cup {Undefined}

\* The default options in both modes and both font sizes.
EncodeOptions ==
    { [DefaultOptions EXCEPT !.mode = mode, !.fontSize = fontSize] :
        mode \in Modes, fontSize \in FontSizes }

\* A call with any export options, in a browser with any set of encoders.
InitEncode ==
    /\ image = 0
    /\ \E size \in ImageSizes :
          surfaces = (0 :> ImageSurface(size[1], size[2], <<"source">>))
    /\ options \in EncodeOptions
    /\ exportOptions \in ExportSpace
    /\ canvas = NoCanvas
    /\ metrics = NoMetrics
    /\ pc = "start"
    /\ dataUrl = NoUrl
    /\ running = <<"caller">>
    /\ AppMounted
    /\ folder = {}
    /\ encoders \in EncoderSets
    /\ observe = {}

\* addWatermark by itself, for its encoding.
SpecEncode == InitEncode /\ [][NextRender]_vars

SpecRender == InitRender /\ [][NextRender]_vars

Init ==
    /\ CallIdle
    /\ surfaces = << >>
    /\ AppMounted
    /\ folder = Files
    /\ encoders = MimeTypes
    /\ observe = {}

Next ==
    \/ \E file \in folder : SelectFile(file)
    \/ \E file \in folder : LoadResolved(file)
    \/ \E file \in folder : LoadRejected(file)
    \/ \E field \in Controls : \E value \in ControlValues(field) : SetOption(field, value)
    \/ \E format \in Formats : SetExportFormat(format)
    \/ \E quality \in ExportQualities : SetExportQuality(quality)
    \/ ToggleShowWatermark
    \/ Tick
    \/ \E t \in timers : TimerFires(t)
    \/ Download
    \/ Reset

\* App, with every file to pick from; nothing is observed.
Spec == Init /\ [][Next]_vars

\* A folder with one picture and the files that are no pictures.
SmallFolder == {file \in Files : IsImageType(file) \/ ~IsImage(file)}

InitObserving(observers) ==
    /\ CallIdle
    /\ surfaces = << >>
    /\ AppMounted
    /\ folder = SmallFolder
    /\ encoders = MimeTypes
    /\ observe = observers

\* App with the encoding each call was asked for observed.
SpecRequests == InitObserving({"request"}) /\ [][Next]_vars

\* App with the resets observed.
SpecReset == InitObserving({"reset"}) /\ [][Next]_vars

\* App with the first call and the later calls with its arguments observed.
SpecCalls == InitObserving({"ref"}) /\ [][Next]_vars

\* Some due timer's callback runs.
TimerCallback == \E t \in timers : TimerFires(t)

\* A timer is due and the page is not stuck: TimerCallback can run, and the
\* step changes timers.
TimerDue == ~hung /\ \E t \in timers : t.remaining = 0

\* Time passes and a due timer's callback runs: the browser's event loop
\* does not starve timers.  The second conjunct is WF_vars(TimerCallback)
\* with ENABLED <<TimerCallback>>_vars written as the state predicate it is.
Fairness ==
    /\ WF_vars(Tick)
    /\ []<>(~TimerDue) \/ []<><<TimerCallback>>_vars

\* App under a fair event loop.
SpecLive == InitObserving({}) /\ [][Next]_vars /\ Fairness

\* The controls used where both branches of addWatermark are to run.
ModeControls == {"text", "mode"}

\* Pictures by their type, with names of every shape: several dots, no dot,
\* a dot first, a dot last, an upper-case extension.
NamedFiles ==
    { [name |-> name, type |-> "image/png", width |-> 800, height |-> 600] :
        name \in { <<"i", "d", ".", "v", "2", ".", "p", "n", "g">>,
                   <<"s", "c", "a", "n">>,
                   <<".", "p", "n", "g">>,
                   <<"a", ".">>,
                   <<"a", ".", "b", ".", "J", "P", "G">>,
                   <<"p", ".", "j", "p", "e", "g">> } }

\* App with the preview of a picked file on screen: the file was selected,
\* loadImage resolved, the debounce timer fired and the render resolved.
\* selectedFile is null where a later load was rejected.
InitPreviewed ==
    /\ CallIdle
    /\ \E file \in NamedFiles :
          /\ selectedFile \in {file, NoFile}
          /\ surfaces = (0 :> ImageSurface(file.width, file.height, file.name))
          /\ previewUrl = IF selectedFile = NoFile THEN NoPreview ELSE ObjectUrl(file)
    /\ originalImage = 0
    /\ encoders = MimeTypes
    /\ watermarkedUrl =
          AddWatermark(surfaces, 0, DefaultOptions, PreviewEncoding).dataUrl
    /\ isProcessing = FALSE
    /\ exportFormat = "png"
    /\ exportQuality = 92
    /\ showWatermark = TRUE
    /\ watermarkOptions = DefaultOptions
    /\ timers = {}
    /\ effectTimer = 0
    /\ loads = {}
    /\ elapsed = DebounceMs
    /\ hung = FALSE
    /\ lastAlert = ""
    /\ folder = {}
    /\ observe = {"download"}
    /\ lastRequest = NoRequest
    /\ lastDownload = NoDownload
    /\ lastLoad = NoLoad
    /\ ref = NoRef
    /\ again = NoUrl
    /\ afterReset = FALSE
    /\ viewer = ViewerMounted

\* The user works in the preview panel: the export settings, the switch and
\* the download button.
NextExport ==
    \/ \E format \in Formats : SetExportFormat(format)
    \/ \E quality \in ExportQualities : SetExportQuality(quality)
    \/ ToggleShowWatermark
    \/ Download

\* Exports of files of every name, the downloads observed.
SpecExport == InitPreviewed /\ [][NextExport]_vars

\* Files of every type and name loadImage tells apart.
FileSpace ==
    { [name |-> name, type |-> type, width |-> 800, height |-> 600] :
        name \in { <<"a", ".", "h", "e", "i", "c">>,
                   <<"I", "M", "G", ".", "H", "E", "I", "C">>,
                   <<"b", ".", "H", "e", "I", "f">>,
                   <<"c", ".", "p", "n", "g">>,
                   <<"h", "e", "i", "c">>,
                   <<"d", ".", "h", "e", "i", "c", ".", "j", "p", "g">>,
                   <<"e", ".", "h", "e", "i", "c", "s">> },
        type \in {"", "image/png", "image/jpeg", "image/heic", "image/heif"} }

\* One call of loadImage(file), pending.
InitLoad ==
    /\ CallIdle
    /\ surfaces = << >>
    /\ selectedFile = NoFile
    /\ originalImage = NoImage
    /\ previewUrl = NoPreview
    /\ watermarkedUrl = NoUrl
    /\ isProcessing = FALSE
    /\ exportFormat = "png"
    /\ exportQuality = 92
    /\ showWatermark = TRUE
    /\ watermarkOptions = DefaultOptions
    /\ timers = {}
    /\ effectTimer = NoTimer
    /\ \E file \in FileSpace : loads = {file}
    /\ elapsed = 0
    /\ hung = FALSE
    /\ lastAlert = ""
    /\ folder = FileSpace
    /\ encoders = MimeTypes
    /\ observe = {"load"}
    /\ lastRequest = NoRequest
    /\ lastDownload = NoDownload
    /\ lastLoad = NoLoad
    /\ ref = NoRef
    /\ again = NoUrl
    /\ afterReset = FALSE
    /\ viewer = ViewerMounted

\* The call settles, under any fault.
LoadImageSettles ==
    /\ \E file \in loads : \E fault \in Faults :
          /\ loads' = loads \ {file}
          /\ lastLoad' = LoadImage(file, fault)
    /\ UNCHANGED <<stateVars, timers, effectTimer, elapsed, hung, lastAlert, folder,
                   encoders, observe, lastRequest, lastDownload, ref, again, afterReset,
                   callVars,
                   surfaces>>
    /\ UNCHANGED viewer

\* loadImage by itself.
SpecLoad == InitLoad /\ [][LoadImageSettles]_vars

\* The user picks files and resets; previews are rendered.
NextPick ==
    \/ \E file \in folder : SelectFile(file)
    \/ \E file \in folder : LoadResolved(file)
    \/ \E file \in folder : LoadRejected(file)
    \/ Tick
    \/ \E t \in timers : TimerFires(t)
    \/ Reset

\* App with every file to pick from, the loads and the alerts observed.
InitPick ==
    /\ CallIdle
    /\ surfaces = << >>
    /\ AppMounted
    /\ folder = Files
    /\ encoders = MimeTypes
    /\ observe = {"alert", "load"}

SpecPick == InitPick /\ [][NextPick]_vars

\* The handlers of App, the renders step by step: a task starts when the
\* stack is empty.
NextTasks ==
    \/ StackEmpty /\ \E file \in folder : SelectFile(file)
    \/ StackEmpty /\ \E file \in folder : LoadResolved(file)
    \/ StackEmpty /\ \E file \in folder : LoadRejected(file)
    \/ StackEmpty /\ \E field \in ModeControls : \E value \in ControlValues(field) :
                        SetOption(field, value)
    \/ StackEmpty /\ \E format \in Formats : SetExportFormat(format)
    \/ StackEmpty /\ \E quality \in ExportQualities : SetExportQuality(quality)
    \/ StackEmpty /\ ToggleShowWatermark
    \/ StackEmpty /\ Tick
    \/ StackEmpty /\ Reset
    \/ StackEmpty /\ \E t \in timers : TimerStarts(t)
    \/ StackEmpty /\ DownloadStarts
    \/ Begin
    \/ BeginFails
    \/ PlaceTile
    \/ PlaceSingle
    \/ Encode
    \/ Settles

\* App with the renders step by step and the alerts observed.
SpecTasks == InitObserving({"alert"}) /\ [][NextTasks]_vars

\* The viewer opens on a page where nothing else happens.
InitViewer ==
    /\ CallIdle
    /\ surfaces = << >>
    /\ AppMounted
    /\ folder = {}
    /\ encoders = MimeTypes
    /\ observe = {}

NextViewer ==
    \/ ZoomIn
    \/ ZoomOut
    \/ RotateLeft
    \/ RotateRight
    \/ ViewerReset
    \/ FitToScreen
    \/ \E point \in Points : DragStarts(point)
    \/ \E point \in Points : DragMoves(point)
    \/ MouseUp
    \/ FrameRuns
    \/ \E distance \in PinchDistances : TouchStartTwo(distance)
    \/ \E distance \in PinchDistances : TouchMoveTwo(distance)
    \/ TouchEnd
    \/ \E deltaY \in {0, 100} : Wheel(deltaY)
    \/ WheelTimerFires

\* The ImageViewer component by itself.
SpecViewer == InitViewer /\ [][NextViewer]_vars

----------------------------------------------------------------------------
(* Claims about one call of addWatermark (SpecRender) *)

\* The call has created its canvas.
HasCanvas == canvas # NoCanvas

\* The placement the tile branch has drawn with.
PlacedGrid == surfaces[canvas].marks[1].placement

TilePlaced == pc \in {"placed", "looping", "resolved"} /\ options.mode = "tile"

\* C1: the output surface has the image's width and height, whatever the mode,
\* the offsets, the rotation and the spacing: from the moment the canvas
\* exists, and in the encoded result.
C1_OutputDimensions ==
    /\ HasCanvas =>
          /\ surfaces[canvas].width = surfaces[image].width
          /\ surfaces[canvas].height = surfaces[image].height
    /\ pc = "resolved" =>
          /\ dataUrl.width = surfaces[image].width
          /\ dataUrl.height = surfaces[image].height

C1_Witness ==
    /\ pc = "resolved"
    /\ options.mode = "tile" /\ options.rotation = -45 /\ options.spacing = 300
    /\ options.offsetX = 50 /\ options.offsetY = -50
    /\ dataUrl.width = 800 /\ dataUrl.height = 600

\* C2: in tile mode the cell is at least as large as the rotated bounding
\* box, so the boxes of neighbouring tiles (centred on neighbouring centres)
\* do not overlap, horizontally or vertically.
C2_CellHoldsRotatedBox ==
    TilePlaced =>
        LET g == PlacedGrid IN
        /\ g.cellWidth >= g.rotatedWidth
        /\ g.cellHeight >= g.rotatedHeight
        /\ \A k \in {-1, 0, 1} :
              /\ CenterX(g, k) + g.rotatedWidth \div 2
                    <= CenterX(g, k + 1) - g.rotatedWidth \div 2
              /\ CenterY(g, k) + g.rotatedHeight \div 2
                    <= CenterY(g, k + 1) - g.rotatedHeight \div 2

C2_Witness ==
    /\ TilePlaced /\ pc = "resolved"
    /\ options.rotation = -45 /\ options.spacing = 0 /\ Len(options.text) = 2
    /\ PlacedGrid.cellWidth = PlacedGrid.rotatedWidth
    /\ PlacedGrid.rotatedWidth > 0

\* C3: in tile mode the grid drawn (columns -1..cols-1, rows -1..rows-1)
\* reaches every edge of the canvas for every offset in [-50,50].  Stated in
\* its weakest reading: allowing a whole cell around the first and the last
\* centre, the grid spans [0,W] x [0,H].  Every stronger reading (the centres
\* lie outside the canvas by a cell radius) fails wherever this one fails.
C3_TileGridCoversCanvas ==
    (TilePlaced /\ ~Diverges(PlacedGrid)) =>
        LET g == PlacedGrid IN
        /\ CenterX(g, -1) - g.cellWidth <= 0
        /\ CenterX(g, g.cols - 1) + g.cellWidth >= W * PX
        /\ CenterY(g, -1) - g.cellHeight <= 0
        /\ CenterY(g, g.rows - 1) + g.cellHeight >= H * PX

\* C4: a render of the empty text terminates, in both modes, for every
\* rotation and spacing, with an output of the input's dimensions.
C4_EmptyTextTerminates ==
    options.text = << >> =>
        /\ pc # "looping"
        /\ pc = "resolved" => /\ dataUrl.width = surfaces[image].width
                              /\ dataUrl.height = surfaces[image].height

\* C5: a tile render never draws more than 100 000 tiles: beyond that it
\* ends in a DegenerateTilingError and draws nothing.
C5_TileCountCapped ==
    TilePlaced =>
        \/ pc = "DegenerateTilingError"
        \/ ~Diverges(PlacedGrid) /\ TileCount(PlacedGrid) <= 100000

\* C7: a call never writes to the source image, to its arguments or to a
\* surface that existed before it: it allocates a new surface, draws the
\* source on it exactly once and works on that surface to the end.
C7_SourceUntouched ==
    /\ [][ /\ image' = image /\ options' = options /\ exportOptions' = exportOptions
           /\ \A i \in DOMAIN surfaces : i # canvas =>
                 i \in DOMAIN surfaces' /\ surfaces'[i] = surfaces[i]
           /\ (~HasCanvas /\ canvas' # NoCanvas) =>
                 /\ canvas' \notin DOMAIN surfaces
                 /\ canvas' \in DOMAIN surfaces'
           /\ HasCanvas => canvas' = canvas ]_vars
    /\ [](HasCanvas =>
            /\ canvas # image
            /\ ~surfaces[canvas].decoded
            /\ surfaces[image].decoded
            /\ Len(surfaces[canvas].base) = 1
            /\ surfaces[canvas].base[1].pixels = surfaces[image].pixels
            /\ surfaces[canvas].base[1].alpha = 10)

C7_Witness ==
    /\ pc = "resolved" /\ HasCanvas
    /\ Len(surfaces[canvas].marks) = 1
    /\ surfaces[image] = ImageSurface(800, 600, <<"source">>)

\* C16: the MIME type given to toDataURL follows from the format alone; for
\* png no quality is given, whatever the caller's quality; for jpeg and webp
\* the caller's quality is given as it is, for every quality in (0,1].
C16_EncoderByFormat ==
    (pc = "resolved" /\ exportOptions # Undefined) =>
        /\ dataUrl.mimeType =
              CASE exportOptions.format = "png" -> "image/png"
                [] exportOptions.format = "jpeg" -> "image/jpeg"
                [] exportOptions.format = "webp" -> "image/webp"
        /\ exportOptions.format = "png" => ~dataUrl.hasQuality
        /\ (exportOptions.format # "png" /\ exportOptions.quality \in 1..100) =>
              /\ dataUrl.hasQuality
              /\ dataUrl.quality = exportOptions.quality

C16_Witness ==
    /\ pc = "resolved"
    /\ exportOptions = [format |-> "webp", quality |-> 1]
    /\ dataUrl.mimeType = "image/webp"
    /\ dataUrl.quality = 1

\* C17: a call that resolves gives data of the type asked for: where the
\* encoder does not take the type, the call ends in an error.
C17_OutputInRequestedFormat ==
    pc = "resolved" =>
        /\ dataUrl.type # ""
        /\ dataUrl.type = dataUrl.mimeType

SinglePlaced == pc \in {"placed", "resolved"} /\ options.mode = "single"

\* C18: in single mode exactly one fillText is made, at the anchor of the
\* position (with textHeight = fontSize) shifted by offsetX/100*W and
\* offsetY/100*H; for 800x600, font size 40, centre, rotation 0 and zero
\* offsets it is at ((800-textWidth)/2, 320).
C18_SingleAnchor ==
    SinglePlaced =>
        LET width == surfaces[image].width * PX
            height == surfaces[image].height * PX
            textWidth == metrics.textWidth
            textHeight == options.fontSize * PX
            position == options.position
            x == CASE position = "center" -> (width - textWidth) \div 2
                   [] position = "top-left" -> 20 * PX
                   [] position = "top-right" -> width - textWidth - 20 * PX
                   [] position = "bottom-left" -> 20 * PX
                   [] position = "bottom-right" -> width - textWidth - 20 * PX
            y == CASE position = "center" -> (height + textHeight) \div 2
                   [] position = "top-left" -> 20 * PX + textHeight
                   [] position = "top-right" -> 20 * PX + textHeight
                   [] position = "bottom-left" -> height - 20 * PX
                   [] position = "bottom-right" -> height - 20 * PX
            shiftX == options.offsetX * ((width \div PX) * (PX \div 100))
            shiftY == options.offsetY * ((height \div PX) * (PX \div 100))
            marks == surfaces[canvas].marks
        IN /\ Len(marks) = 1
           /\ marks[1].placement.mode = "single"
           /\ marks[1].placement.text = options.text
           /\ marks[1].placement.x = x + shiftX
           /\ marks[1].placement.y = y + shiftY
           /\ ( /\ width = 800 * PX /\ height = 600 * PX
                /\ options.fontSize = 40 /\ position = "center"
                /\ options.rotation = 0
                /\ options.offsetX = 0 /\ options.offsetY = 0 ) =>
                 /\ 2 * marks[1].placement.x = 800 * PX - textWidth
                 /\ marks[1].placement.y = 320 * PX

C18_Witness ==
    /\ SinglePlaced /\ pc = "resolved"
    /\ surfaces[image].width = 800 /\ surfaces[image].height = 600
    /\ options.fontSize = 40 /\ options.position = "center"
    /\ options.rotation = 0 /\ options.offsetX = 0 /\ options.offsetY = 0
    /\ Len(options.text) = 2
    /\ surfaces[canvas].marks[1].placement.x = 380 * PX
    /\ surfaces[canvas].marks[1].placement.y = 320 * PX

\* C19: in tile mode the same spacingGap = rotatedWidth * spacing / 100 is
\* added to both cell dimensions, and cols = ceil(W / cellWidth) + 2, rows =
\* ceil(H / cellHeight) + 2 (ceil(n) is the least integer not below n; the
\* quotient by a cell of size 0 is infinite); with spacing 0 and rotation 0
\* the cell is textWidth x fontSize.
C19_TileCells ==
    TilePlaced =>
        LET g == PlacedGrid
            width == surfaces[image].width * PX
            height == surfaces[image].height * PX
        IN /\ g.rotatedWidth % 100 = 0
           /\ g.spacingGap = (g.rotatedWidth \div 100) * options.spacing
           /\ g.cellWidth - g.rotatedWidth = g.spacingGap
           /\ g.cellHeight - g.rotatedHeight = g.spacingGap
           /\ g.colsInfinite <=> g.cellWidth = 0
           /\ g.rowsInfinite <=> g.cellHeight = 0
           /\ g.cellWidth > 0 =>
                 /\ (g.cols - 2) * g.cellWidth >= width
                 /\ (g.cols - 3) * g.cellWidth < width
           /\ g.cellHeight > 0 =>
                 /\ (g.rows - 2) * g.cellHeight >= height
                 /\ (g.rows - 3) * g.cellHeight < height
           /\ (options.spacing = 0 /\ options.rotation = 0) =>
                 /\ g.cellWidth = metrics.textWidth
                 /\ g.cellHeight = options.fontSize * PX

C19_Witness ==
    /\ TilePlaced /\ pc = "resolved"
    /\ surfaces[image].width = 800 /\ surfaces[image].height = 600
    /\ options.spacing = 0 /\ options.rotation = 0
    /\ options.fontSize = 40 /\ Len(options.text) = 1
    /\ PlacedGrid.cellWidth = 20 * PX /\ PlacedGrid.cellHeight = 40 * PX
    /\ PlacedGrid.cols = 42 /\ PlacedGrid.rows = 17

\* The fillText calls of a second render of the same image with other
\* options.
MarksOf(opts) ==
    LET render == AddWatermark((image :> surfaces[image]), image, opts, exportOptions)
    IN render.surfaces[render.canvas].marks

\* C20: a tile render draws the same marks whatever the position, and a
\* single render draws the same mark whatever the spacing.
C20_OnlyActiveModeFields ==
    pc \in {"placed", "looping", "resolved"} =>
        /\ options.mode = "tile" =>
              \A position \in Positions :
                  MarksOf([options EXCEPT !.position = position])
                      = surfaces[canvas].marks
        /\ options.mode = "single" =>
              \A spacing \in Spacings :
                  MarksOf([options EXCEPT !.spacing = spacing])
                      = surfaces[canvas].marks

C20_Witness ==
    /\ pc = "resolved"
    /\ options.mode = "single" /\ options.spacing = 0
    /\ Len(options.text) = 2 /\ options.position = "bottom-right"
    /\ Len(surfaces[canvas].marks) = 1
    /\ MarksOf([options EXCEPT !.spacing = 300]) = surfaces[canvas].marks

\* The placement of a second render of the same image with other options.
PlacementOf(opts) == MarksOf(opts)[1].placement

\* C21: the offsets translate: with offsetX changed by d, every centre moves
\* by d/100*W horizontally and not vertically; with offsetY changed by d, by
\* d/100*H vertically and not horizontally; the rows, the columns and the
\* cell do not change.  (The centres of a grid are linear in the column and
\* the row: the first two and the last one fix them all.)
C21_OffsetsTranslate ==
    pc \in {"placed", "resolved"} =>
        \A o \in Offsets :
            LET a == surfaces[canvas].marks[1].placement
                bx == PlacementOf([options EXCEPT !.offsetX = o])
                by == PlacementOf([options EXCEPT !.offsetY = o])
                dx == (o - options.offsetX) * (surfaces[image].width * (PX \div 100))
                dy == (o - options.offsetY) * (surfaces[image].height * (PX \div 100))
            IN IF options.mode = "tile"
               THEN /\ \A b \in {bx, by} :
                          /\ b.cols = a.cols /\ b.rows = a.rows
                          /\ b.cellWidth = a.cellWidth
                          /\ b.cellHeight = a.cellHeight
                    /\ \A col \in {-1, 0, a.cols - 1} :
                          /\ CenterX(bx, col) - CenterX(a, col) = dx
                          /\ CenterX(by, col) = CenterX(a, col)
                    /\ \A row \in {-1, 0, a.rows - 1} :
                          /\ CenterY(bx, row) = CenterY(a, row)
                          /\ CenterY(by, row) - CenterY(a, row) = dy
               ELSE /\ bx.pivotX - a.pivotX = dx /\ bx.pivotY = a.pivotY
                    /\ by.pivotX = a.pivotX /\ by.pivotY - a.pivotY = dy

C21_Witness ==
    /\ pc = "resolved"
    /\ options.mode = "tile" /\ options.offsetX = 50 /\ options.offsetY = 0
    /\ surfaces[image].width = 800 /\ Len(options.text) = 2
    /\ CenterX(PlacedGrid, 0)
          - CenterX(PlacementOf([options EXCEPT !.offsetX = -50]), 0) = 800 * PX
    /\ PlacedGrid.cols = PlacementOf([options EXCEPT !.offsetX = -50]).cols

\* C22: in tile mode with both offsets 0 the centres drawn (columns
\* -1..cols-1, rows -1..rows-1) are symmetric about the centre of the canvas:
\* the first and the last centre lie equally far from it, for every spacing
\* and every rotation.
C22_TileCentresSymmetric ==
    ( /\ pc \in {"placed", "resolved"} /\ options.mode = "tile"
      /\ options.offsetX = 0 /\ options.offsetY = 0 ) =>
        LET g == PlacedGrid
        IN /\ CenterX(g, -1) + CenterX(g, g.cols - 1) = surfaces[image].width * PX
           /\ CenterY(g, -1) + CenterY(g, g.rows - 1) = surfaces[image].height * PX

----------------------------------------------------------------------------
(* Claims about App *)

\* watermarkOptions or originalImage changes in the step: the dependencies of
\* the debounce effect.
Change == originalImage' # originalImage \/ watermarkOptions' # watermarkOptions

\* A due timer leaves the pending timers in a step that changes neither
\* dependency: it was not cancelled, its callback runs.
Due(t) == t \in timers /\ t.remaining = 0 /\ t \notin timers' /\ ~Change

Request(kind, format, quality) == [kind |-> kind, format |-> format, quality |-> quality]

\* C8: a preview call asks for PNG at quality 1.0 whatever the export
\* settings are, a download call asks for the export format and quality of
\* the moment, and a change of the export settings neither schedules or
\* cancels a timer nor touches the preview or starts a call.
C8_PreviewPngExportAsSelected ==
    /\ [](lastRequest.kind = "preview" => lastRequest = Request("preview", "png", 100))
    /\ [][ /\ (\E t \in timers : Due(t)) /\ ~hung'
               => lastRequest' = Request("preview", "png", 100)
           /\ Download /\ originalImage # NoImage /\ ~hung'
               => lastRequest' = Request("export", exportFormat, exportQuality)
           /\ exportFormat' # exportFormat \/ exportQuality' # exportQuality
               => UNCHANGED <<timers, effectTimer, watermarkedUrl, lastRequest>> ]_vars

C8_Witness ==
    /\ lastRequest = Request("preview", "png", 100)
    /\ exportFormat = "webp"
    /\ exportQuality = 100
    /\ watermarkOptions # DefaultOptions

\* C9: at most one debounce timer is pending; a change of watermarkOptions
\* or originalImage that leaves an image loaded leaves exactly one timer, a
\* new one of 300 ms; a timer's callback runs only when 300 ms have passed
\* since the last change.
C9_OneTimerAfterQuiescence ==
    /\ [](Cardinality(timers) <= 1)
    /\ [][ /\ Change /\ originalImage' # NoImage
               => \E t \in timers' : timers' = {t} /\ t.remaining = DebounceMs
           /\ \A t \in timers : Due(t) => elapsed >= DebounceMs ]_vars

C9_Witness ==
    /\ watermarkedUrl # NoUrl
    /\ elapsed = 0
    /\ \E t \in timers :
          /\ timers = {t}
          /\ t.remaining = DebounceMs
          /\ t.options # DefaultOptions

\* The preview shown is the render of the loaded image with the current
\* watermarkOptions, or that render is stuck in its loop.
PreviewCurrent ==
    \/ hung
    \/ watermarkedUrl =
         AddWatermark(surfaces, originalImage, watermarkOptions, PreviewEncoding).dataUrl

\* C10: a change that leaves an image loaded leaves a timer pending; the
\* callback of a due timer renders the image and the watermarkOptions of
\* that moment; and unless changes go on for ever, the preview is in the end
\* the render of the current image and options.
C10_PreviewFollowsChanges ==
    /\ [][ /\ Change /\ originalImage' # NoImage => timers' # {}
           /\ \A t \in timers : Due(t) =>
                 /\ t.image = originalImage
                 /\ t.options = watermarkOptions
                 /\ PreviewCurrent' ]_vars
    /\ \/ []<><<Change>>_vars
       \/ <>[](originalImage # NoImage => PreviewCurrent)

C10_Witness ==
    /\ originalImage # NoImage
    /\ watermarkOptions # DefaultOptions
    /\ timers = {}
    /\ ~hung
    /\ PreviewCurrent

\* C11: at most one call of addWatermark is in progress at any moment, and
\* a call starts only when none is: a timer that comes due or a click on
\* download during a render waits for the render and its caller to finish.
C11_OneRenderAtATime ==
    /\ [](Len(running) <= 1)
    /\ [][pc' = "start" => pc = "idle" /\ running = << >>]_vars

C11_Witness ==
    /\ running = <<"handleDownload">>
    /\ pc = "placed"
    /\ \E t \in timers : t.remaining = 0

\* C12: when a call of addWatermark is rejected, for the preview or for the
\* export, the caller leaves watermarkedUrl as it was, alerts the user and
\* sets isProcessing to false; and while a call is in progress the preview
\* changes only to the complete result of a call that resolved.
C12_FailedRenderKeepsPreview ==
    [][ /\ pc = "rejected" =>
              /\ watermarkedUrl' = watermarkedUrl
              /\ isProcessing' = FALSE
              /\ lastAlert' = RenderAlert(Head(running))
              /\ pc' = "idle"
        /\ (pc # "idle" /\ watermarkedUrl' # watermarkedUrl) =>
              /\ pc = "resolved"
              /\ watermarkedUrl' = dataUrl
              /\ dataUrl.type # ""
              /\ Len(dataUrl.base) = 1 /\ Len(dataUrl.marks) = 1 ]_vars

C12_Witness ==
    /\ pc = "idle"
    /\ lastAlert = RenderAlert("generateWatermark")
    /\ ~isProcessing
    /\ watermarkedUrl # NoUrl
    /\ watermarkedUrl # AddWatermark(surfaces, originalImage, watermarkOptions,
                                     PreviewEncoding).dataUrl
    /\ timers = {}

\* The last dot of a name, 0 where it has none.
LastDot(name) ==
    IF \E k \in DOMAIN name : name[k] = "."
    THEN CHOOSE k \in DOMAIN name :
            name[k] = "." /\ \A j \in DOMAIN name : name[j] = "." => j <= k
    ELSE 0

\* A name without its last extension: what stands before the last dot,
\* where something follows that dot.
Basename(name) ==
    IF LastDot(name) = 0 \/ LastDot(name) = Len(name)
    THEN name
    ELSE SubSeq(name, 1, LastDot(name) - 1)

\* C13: the file is downloaded as watermarked_<basename>.<ext>, the
\* basename being the selected file's name without its last extension and
\* ext being png, jpg or webp by the format asked for.
C13_ExportFilename ==
    (lastDownload # NoDownload /\ selectedFile # NoFile) =>
        lastDownload.filename =
            <<"watermarked_">> \o Basename(selectedFile.name)
                \o << ".", CASE lastDownload.mimeType = "image/png" -> "png"
                             [] lastDownload.mimeType = "image/jpeg" -> "jpg"
                             [] lastDownload.mimeType = "image/webp" -> "webp" >>

C13_Witness ==
    /\ selectedFile.name = <<"a", ".", "b", ".", "J", "P", "G">>
    /\ lastDownload.filename = <<"watermarked_", "a", ".", "b", ".", "jpg">>

\* The endings .heic and .heif in every mix of cases.
HeicEndings ==
    { <<".", h, e, i, c>> : h \in {"h", "H"}, e \in {"e", "E"}, i \in {"i", "I"},
                            c \in {"c", "C", "f", "F"} }

\* C14: loadImage calls the HEIC conversion, to JPEG at quality 0.95,
\* exactly for the files of type image/heic or image/heif or with a name
\* ending in .heic or .heif in any case; for every other file no conversion
\* is called and the file's own bytes are read and decoded.
C14_ConvertsExactlyHeic ==
    lastLoad # NoLoad =>
        LET file == lastLoad.file
            n == Len(file.name)
            heic == \/ file.type \in {"image/heic", "image/heif"}
                    \/ n >= 5 /\ SubSeq(file.name, n - 4, n) \in HeicEndings
        IN /\ lastLoad.converts <=> heic
           /\ heic => lastLoad.toType = "image/jpeg" /\ lastLoad.quality = 95
           /\ heic => lastLoad.decodes \in {"converted", ""}
           /\ ~heic => /\ lastLoad.decodes = "original"
                       /\ lastLoad.toType = "" /\ lastLoad.quality = 0
                       /\ lastLoad.message # "HEIC conversion failed"

C14_Witness ==
    /\ lastLoad.file.name = <<"c", ".", "p", "n", "g">>
    /\ lastLoad.file.type = "image/heif"
    /\ lastLoad.converts
    /\ lastLoad.outcome = "resolved"

\* C15: a conversion that fails rejects loadImage with the conversion
\* message, a read or a decode that fails rejects it with theirs, and a
\* rejected load gives no image; the caller alerts the message, starts no
\* other load and leaves no file selected; a load starts only with the
\* selection of its file.
C15_LoadFailureReported ==
    /\ [](lastLoad # NoLoad =>
            /\ (lastLoad.fault = "convert" /\ lastLoad.converts) =>
                  /\ lastLoad.outcome = "rejected"
                  /\ lastLoad.message = "HEIC conversion failed"
            /\ lastLoad.fault \in {"read", "decode"} =>
                  /\ lastLoad.outcome = "rejected"
                  /\ lastLoad.message \in {"file read failed", "image load failed"}
            /\ lastLoad.fault = "none" <=> lastLoad.outcome = "resolved"
            /\ lastLoad.outcome = "rejected" => lastLoad.message # "")
    /\ [][ /\ \A file \in loads \ loads' :
                 /\ loads' = loads \ {file}
                 /\ lastLoad'.file = file
                 /\ lastLoad'.outcome = "rejected" =>
                       /\ originalImage' = originalImage
                       /\ watermarkedUrl' = watermarkedUrl
                       /\ surfaces' = surfaces
                       /\ lastAlert' = lastLoad'.message
                       /\ selectedFile' = NoFile
                       /\ isProcessing' = FALSE
                 /\ lastLoad'.outcome = "resolved" => originalImage' # originalImage
           /\ \A file \in loads' \ loads : selectedFile' = file /\ loads \subseteq loads'
         ]_vars

C15_Witness ==
    /\ lastLoad.outcome = "rejected"
    /\ lastLoad.message = "HEIC conversion failed"
    /\ lastAlert = "HEIC conversion failed"
    /\ selectedFile = NoFile
    /\ loads = {}
    /\ originalImage # NoImage

\* C23: the step that clears the preview (handleReset) also clears
\* selectedFile, originalImage and previewUrl, leaves no debounce timer
\* pending, and leaves watermarkOptions, exportFormat, exportQuality and
\* showWatermark as they were.
C23_ResetClearsAndCancels ==
    [][ (watermarkedUrl # NoUrl /\ watermarkedUrl' = NoUrl) =>
            /\ selectedFile' = NoFile
            /\ originalImage' = NoImage
            /\ previewUrl' = NoPreview
            /\ timers' = {}
            /\ UNCHANGED <<watermarkOptions, exportFormat, exportQuality,
                           showWatermark>> ]_vars

\* Just after a reset (no time has passed since the effect ran), with
\* options and export settings that are not the initial ones.
C23_Witness ==
    /\ watermarkedUrl = NoUrl /\ originalImage = NoImage
    /\ selectedFile = NoFile /\ previewUrl = NoPreview
    /\ timers = {} /\ elapsed = 0 /\ loads = {}
    /\ watermarkOptions # DefaultOptions
    /\ exportFormat = "webp" /\ ~showWatermark

\* The file the loaded image was decoded from, by its name.
DecodedFrom == surfaces[originalImage].pixels

\* C24: once no load is pending, the loaded image is that of the selected
\* file, the one selected last, in whatever order the loads ended.
C24_LastSelectedFileLoaded ==
    (loads = {} /\ selectedFile # NoFile /\ originalImage # NoImage) =>
        DecodedFrom = selectedFile.name

\* C25: whenever the download button is enabled, the image to export was
\* decoded from the selected file, whose name the download is given.
C25_DownloadNamesItsImage ==
    (DownloadEnabled /\ originalImage # NoImage) =>
        /\ selectedFile # NoFile
        /\ DecodedFrom = selectedFile.name

\* C26: with no file selected, no image is loaded and no preview is shown.
C26_NothingSelectedNothingShown ==
    selectedFile = NoFile => (originalImage = NoImage /\ watermarkedUrl = NoUrl)

\* C27: after handleReset and until a picture is selected, no image is
\* loaded and no preview is shown.
C27_EmptyAfterReset ==
    afterReset => (originalImage = NoImage /\ watermarkedUrl = NoUrl)

\* C28: while a HEIC conversion is in progress, isProcessing is true
\* (renders run to their end within one step of this specification).
C28_ProcessingWhileConverting ==
    (\E file \in loads : IsHeic(file)) => isProcessing

\* C29: in the image viewer the scale stays within [MIN_SCALE, MAX_SCALE]
\* under zoomIn, zoomOut, wheel, pinch, fitToScreen and reset, and after
\* reset the scale is 1, the rotation 0 and the position (0, 0).
C29_ViewerScaleBounded ==
    /\ viewer.scale >= 10 /\ viewer.scale <= 500
    /\ viewer.event = "reset" =>
          /\ viewer.scale = 100
          /\ viewer.rotation = 0
          /\ viewer.position = <<0, 0>>

\* A pinch from 600 px to 100 px has taken the scale to its minimum.
C29_Witness ==
    /\ viewer.scale = 10
    /\ viewer.lastTouchDistance = 100

====
